---- MODULE Spec2Model ----
(***************************************************************************)
(* A model of the CleverDocs backend: the retrieval path (BlogService and  *)
(* the GET /blogs, GET /blogs/{blog_id} endpoints) and the upload path     *)
(* (UploadService.process_markdown_upload behind POST /api/upload/markdown).*)
(*                                                                         *)
(* Python strings that the code inspects (strip, lower, split, regular     *)
(* expressions, len) are sequences of one-character strings.  Texts the    *)
(* code only carries around (an error detail, a rendering stored in a      *)
(* record, the fixed passages of a template) are TLA+ strings.             *)
(* Optional[x] is a sequence of length 0 (None) or 1.                      *)
(***************************************************************************)
EXTENDS Integers, Sequences, FiniteSets, TLC

VARIABLES
    store,        \* shared/data/blogs.json as the loader finds it
    cached_blogs, \* blog_service._cached_blogs of the module-level instance
    upload_cached_blogs, \* upload_service.blog_service._cached_blogs
    persisted,    \* records the store accepted from add_blog, in order
    lastRead,     \* the outcome of the last listing / lookup that finished
    upload,       \* the upload request in flight (or finished), with its trace
    uuid_counter, \* number of identities uuid.uuid4() has produced
    call          \* a method of the services called on its own, with its result

vars == <<store, cached_blogs, upload_cached_blogs, persisted, lastRead, upload, uuid_counter, call>>

----------------------------------------------------------------------------
(* Bounds of the model *)

\* uploads the model follows from request to response
MaxUploads == 2

\* fragments a text given to a method called on its own is made of, at most
MaxFragments == 3

----------------------------------------------------------------------------
(* Python values *)

None == <<>>
Some(x) == <<x>>
IsNone(o) == o = <<>>
Val(o) == o[1]

Range(s) == {s[i] : i \in DOMAIN s}

NL == "\n"
\* the backquote character
Backtick == "<backquote>"
Whitespace == {" ", NL, "\t"}

RECURSIVE LStrip(_)
LStrip(s) ==
    IF s # <<>> /\ Head(s) \in Whitespace THEN LStrip(Tail(s)) ELSE s

RECURSIVE RStrip(_)
RStrip(s) ==
    IF s # <<>> /\ s[Len(s)] \in Whitespace
    THEN RStrip(SubSeq(s, 1, Len(s) - 1))
    ELSE s

\* str.strip()
Strip(s) == RStrip(LStrip(s))

Uppers ==
    <<"A", "B", "C", "D", "E", "F", "G", "H", "I", "J", "K", "L", "M",
      "N", "O", "P", "Q", "R", "S", "T", "U", "V", "W", "X", "Y", "Z">>
Lowers ==
    <<"a", "b", "c", "d", "e", "f", "g", "h", "i", "j", "k", "l", "m",
      "n", "o", "p", "q", "r", "s", "t", "u", "v", "w", "x", "y", "z">>

IndexIn(seq, c) == CHOOSE i \in DOMAIN seq : seq[i] = c
LowerChar(c) == IF c \in Range(Uppers) THEN Lowers[IndexIn(Uppers, c)] ELSE c
UpperChar(c) == IF c \in Range(Lowers) THEN Uppers[IndexIn(Lowers, c)] ELSE c
IsLetter(c) == c \in Range(Uppers) \cup Range(Lowers)

\* str.lower()
Lower(s) == [i \in DOMAIN s |-> LowerChar(s[i])]

----------------------------------------------------------------------------
(* The strings of the model *)

S_official == <<"o", "f", "f", "i", "c", "i", "a", "l">>
S_community == <<"c", "o", "m", "m", "u", "n", "i", "t", "y">>
S_tutorial == <<"t", "u", "t", "o", "r", "i", "a", "l">>
S_guide == <<"g", "u", "i", "d", "e">>
S_documentation == <<"d", "o", "c", "u", "m", "e", "n", "t", "a", "t", "i", "o", "n">>
S_invalid_type == <<"i", "n", "v", "a", "l", "i", "d", "_", "t", "y", "p", "e">>

S_beginner == <<"b", "e", "g", "i", "n", "n", "e", "r">>
S_intermediate == <<"i", "n", "t", "e", "r", "m", "e", "d", "i", "a", "t", "e">>
S_expert == <<"e", "x", "p", "e", "r", "t">>
S_super_expert == <<"s", "u", "p", "e", "r", "-">> \o S_expert

S_DevOps == <<"D", "e", "v", "O", "p", "s">>
S_devops == <<"d", "e", "v", "o", "p", "s">>
S_security == <<"s", "e", "c", "u", "r", "i", "t", "y">>
S_python == <<"p", "y", "t", "h", "o", "n">>
S_api == <<"a", "p", "i">>

\* blog_service.py:56 and :83, :133
DocTypes == <<S_official, S_community>>
ExpertiseLevels == <<S_beginner, S_intermediate, S_expert>>

----------------------------------------------------------------------------
(* models/blog.py: the Blog model *)

\* content held as a dict, or (after adaptation) as a str
DictContent(m) == [kind |-> "dict", map |-> m, text |-> ""]
StrContent(t) == [kind |-> "str", map |-> <<>>, text |-> t]
IsDict(c) == c.kind = "dict"

\* Blog.handle_doc_type (pre-validator): every value outside the enumeration
\* becomes "community"
handle_doc_type(v) ==
    IF v \in {S_tutorial, S_guide, S_documentation} THEN S_community
    ELSE IF v \in Range(DocTypes) THEN v
    ELSE S_community

MinTitleLen == 1
MaxTitleLen == 200
MinExcerptLen == 10
MaxExcerptLen == 500
MaxTagItems == 10
MaxRating == 5

\* the field constraints pydantic enforces when Blog(...) is constructed
BlogFieldsValid(raw) ==
    /\ Len(raw.title) >= MinTitleLen /\ Len(raw.title) <= MaxTitleLen
    /\ Len(raw.excerpt) >= MinExcerptLen /\ Len(raw.excerpt) <= MaxExcerptLen
    /\ IsDict(raw.content)
    /\ raw.readTime.suffix = " min read" /\ raw.readTime.minutes >= 0
    /\ Len(raw.tags) <= MaxTagItems
    /\ raw.avgRating >= 0 /\ raw.avgRating <= MaxRating
    /\ raw.totalRatings >= 0

\* Blog(**raw): the validated record, with the pre-validators applied
Blog(raw) == [raw EXCEPT !.docType = handle_doc_type(raw.docType)]

BlogFields ==
    {"id", "title", "excerpt", "content", "author", "publishedAt", "readTime",
     "tags", "coverImage", "avgRating", "totalRatings", "docType"}

----------------------------------------------------------------------------
(* services/blog_service.py: BlogService *)

\* a Python truth test on an Optional[str] or Optional[list]
Truthy(o) == ~IsNone(o) /\ Val(o) # <<>>

Indices(s) == [i \in 1..Len(s) |-> i]

HTTPException(code, msg) == [status |-> code, detail |-> msg]

InvalidDocTypeDetail == "Invalid docType. Must be 'official' or 'community'"
InvalidLevelDetail ==
    "Invalid expertiseLevel. Must be 'beginner', 'intermediate', or 'expert'"

\* load_blogs_from_shared, lines 22-43: what reading and validating the file gives
ReadStore(st) ==
    IF st.file = "missing"
    THEN [raised |-> TRUE, exc |-> HTTPException(500, "Blog data unavailable"), blogs |-> <<>>]
    ELSE IF st.file = "corrupt"
    THEN [raised |-> TRUE, exc |-> HTTPException(500, "Blog data corrupted"), blogs |-> <<>>]
    ELSE IF \E i \in DOMAIN st.blogs : ~BlogFieldsValid(st.blogs[i])
    THEN [raised |-> TRUE, exc |-> HTTPException(500, "Internal server error"), blogs |-> <<>>]
    ELSE [raised |-> FALSE, exc |-> HTTPException(200, ""),
          blogs |-> [i \in DOMAIN st.blogs |-> Blog(st.blogs[i])]]

\* the file is read on every call
load_blogs_uncached(cache, st) ==
    LET r == ReadStore(st) IN
    IF r.raised
    THEN [raised |-> TRUE, exc |-> r.exc, blogs |-> <<>>, cache |-> cache, opened |-> 1]
    ELSE [raised |-> FALSE, exc |-> r.exc, blogs |-> r.blogs, cache |-> Some(r.blogs),
          opened |-> 1]

\* the records validated before the failing one stay in the cache
load_blogs_keeping_partial(cache, st) ==
    IF ~IsNone(cache)
    THEN [raised |-> FALSE, exc |-> HTTPException(200, ""), blogs |-> Val(cache), cache |-> cache,
          opened |-> 0]
    ELSE LET r == ReadStore(st)
             good == SelectSeq(st.blogs, BlogFieldsValid)
         IN
         IF r.raised
         THEN [raised |-> TRUE, exc |-> r.exc, blogs |-> <<>>,
               cache |-> Some([i \in DOMAIN good |-> Blog(good[i])]), opened |-> 1]
         ELSE [raised |-> FALSE, exc |-> r.exc, blogs |-> r.blogs, cache |-> Some(r.blogs),
               opened |-> 1]

\* load_blogs_from_shared: the cached list when there is one, else the file;
\* cache is the value of _cached_blogs afterwards, opened the number of times
\* the file was opened (line 27)
load_blogs_from_shared(cache, st) ==
    IF ~IsNone(cache)
    THEN [raised |-> FALSE, exc |-> HTTPException(200, ""), blogs |-> Val(cache), cache |-> cache,
          opened |-> 0]
    ELSE LET r == ReadStore(st) IN
         IF r.raised
         THEN [raised |-> TRUE, exc |-> r.exc, blogs |-> <<>>, cache |-> cache, opened |-> 1]
         ELSE [raised |-> FALSE, exc |-> r.exc, blogs |-> r.blogs, cache |-> Some(r.blogs),
               opened |-> 1]

\* the value is validated but the list is left as it was
DocTypeStageUnfiltered(blogs, idx, doc_type) ==
    IF ~Truthy(doc_type)
    THEN [raised |-> FALSE, filtered |-> idx]
    ELSE IF Strip(Val(doc_type)) \notin Range(DocTypes)
    THEN [raised |-> TRUE, filtered |-> <<>>]
    ELSE [raised |-> FALSE, filtered |-> idx]

\* filter_blogs lines 54-63: the docType stage over the positions idx of blogs
DocTypeStage(blogs, idx, doc_type) ==
    IF ~Truthy(doc_type)
    THEN [raised |-> FALSE, filtered |-> idx]
    ELSE LET dt == Strip(Val(doc_type)) IN
         IF dt \notin Range(DocTypes)
         THEN [raised |-> TRUE, filtered |-> <<>>]
         ELSE [raised |-> FALSE,
               filtered |-> SelectSeq(idx, LAMBDA i : blogs[i].docType = dt)]

\* line 68: tags_lower
CleanTags(tags) ==
    LET kept == SelectSeq(tags, LAMBDA t : Strip(t) # <<>>)
    IN  [i \in DOMAIN kept |-> Lower(Strip(kept[i]))]

\* the record's tags are compared as they are written
TagMatchCaseSensitive(blog, tags_lower) ==
    \E k \in DOMAIN tags_lower : tags_lower[k] \in Range(blog.tags)

\* line 76: any requested tag among the blog's lower-cased tags
TagMatch(blog, tags_lower) ==
    \E k \in DOMAIN tags_lower :
        tags_lower[k] \in {Lower(blog.tags[j]) : j \in DOMAIN blog.tags}

\* filter_blogs lines 66-78: the tag stage; returned is the early return of line 71
TagStage(blogs, idx, tags) ==
    IF ~Truthy(tags)
    THEN [returned |-> FALSE, filtered |-> idx]
    ELSE LET tags_lower == CleanTags(Val(tags)) IN
         IF tags_lower = <<>>
         THEN [returned |-> TRUE, filtered |-> idx]
         ELSE [returned |-> FALSE,
               filtered |-> SelectSeq(idx, LAMBDA i : TagMatch(blogs[i], tags_lower))]

\* blog.model_copy(deep=True): a separate object with equal fields
model_copy(blog) == blog

\* the copy is skipped and the listed object itself is given the string
AdaptBlogInPlace(blog, level) ==
    LET adapted_blog == [blog EXCEPT !.content = StrContent(blog.content.map[level])] IN
    [source |-> adapted_blog, out |-> adapted_blog]

\* the copy keeps a mapping that holds the requested level alone
AdaptBlogPartialMap(blog, level) ==
    [source |-> blog,
     out |-> [blog EXCEPT !.content = DictContent(level :> blog.content.map[level])]]

\* lines 95-96 (and 141-142): source is the object the list holds, as it is
\* after the statement; out is the object handed back
AdaptBlog(blog, level) ==
    LET adapted_blog == model_copy(blog) IN
    [source |-> blog,
     out |-> [adapted_blog EXCEPT !.content = StrContent(blog.content.map[level])]]

\* lines 93 and 140
HasLevel(blog, level) == IsDict(blog.content) /\ level \in DOMAIN blog.content.map

\* a missing level is read with a default instead of being kept as it is
AdaptOrDefault(blog, level) ==
    IF HasLevel(blog, level)
    THEN AdaptBlog(blog, level)
    ELSE [source |-> blog, out |-> [blog EXCEPT !.content = StrContent("")]]

\* lines 92-100 for one blog
AdaptOrKeep(blog, level) ==
    IF HasLevel(blog, level) THEN AdaptBlog(blog, level) ELSE [source |-> blog, out |-> blog]

\* the list result of filter_blogs: data is what it returns, source the list
\* it was given, as that list is after the call
FilterOk(blogs, data) == [status |-> 200, detail |-> "", data |-> data, source |-> blogs]
FilterRaise(blogs, exc) == [status |-> exc.status, detail |-> exc.detail, data |-> <<>>, source |-> blogs]

Pick(blogs, idx) == [k \in DOMAIN idx |-> blogs[idx[k]]]

\* the stage keeps only the records that have the level
LevelStageDropping(blogs, idx, expertise_level) ==
    IF ~Truthy(expertise_level)
    THEN FilterOk(blogs, Pick(blogs, idx))
    ELSE LET level == Lower(Strip(Val(expertise_level))) IN
         IF level \notin Range(ExpertiseLevels)
         THEN FilterRaise(blogs, HTTPException(400, InvalidLevelDetail))
         ELSE LET having == SelectSeq(idx, LAMBDA i : HasLevel(blogs[i], level)) IN
              FilterOk(blogs, [k \in DOMAIN having |-> AdaptBlog(blogs[having[k]], level).out])

\* filter_blogs lines 81-102: the expertise-level stage
LevelStage(blogs, idx, expertise_level) ==
    IF ~Truthy(expertise_level)
    THEN FilterOk(blogs, Pick(blogs, idx))
    ELSE LET level == Lower(Strip(Val(expertise_level))) IN
         IF level \notin Range(ExpertiseLevels)
         THEN FilterRaise(blogs, HTTPException(400, InvalidLevelDetail))
         ELSE LET adapted == [k \in DOMAIN idx |-> AdaptOrKeep(blogs[idx[k]], level)] IN
              FilterOk(
                  [i \in DOMAIN blogs |->
                      IF \E k \in DOMAIN idx : idx[k] = i
                      THEN adapted[CHOOSE k \in DOMAIN idx : idx[k] = i].source
                      ELSE blogs[i]],
                  [k \in DOMAIN idx |-> adapted[k].out])

\* filter_blogs, lines 45-105
filter_blogs(blogs, doc_type, tags, expertise_level) ==
    IF blogs = <<>>
    THEN FilterOk(blogs, <<>>)
    ELSE LET byType == DocTypeStage(blogs, Indices(blogs), doc_type) IN
         IF byType.raised
         THEN FilterRaise(blogs, HTTPException(400, InvalidDocTypeDetail))
         ELSE LET byTags == TagStage(blogs, byType.filtered, tags) IN
              IF byTags.returned
              THEN FilterOk(blogs, Pick(blogs, byTags.filtered))
              ELSE LevelStage(blogs, byTags.filtered, expertise_level)

\* get_blog_by_id lines 121-125: the first blog with the identity, as a position
FindById(blogs, blog_id) ==
    IF \E i \in DOMAIN blogs : blogs[i].id = blog_id
    THEN Some(CHOOSE i \in DOMAIN blogs :
                 /\ blogs[i].id = blog_id
                 /\ \A j \in 1..(i - 1) : blogs[j].id # blog_id)
    ELSE None

\* the level is validated before the record is searched
lookup_blog_level_first(blogs, blog_id, expertise_level) ==
    IF Truthy(expertise_level) /\ Val(expertise_level) \notin Range(ExpertiseLevels)
    THEN [status |-> 400, detail |-> InvalidLevelDetail, found |-> FALSE, data |-> <<>>, source |-> blogs]
    ELSE LET at == FindById(blogs, blog_id) IN
         IF IsNone(at)
         THEN [status |-> 200, detail |-> "", found |-> FALSE, data |-> <<>>, source |-> blogs]
         ELSE LET a == IF Truthy(expertise_level)
                       THEN AdaptOrKeep(blogs[Val(at)], Val(expertise_level))
                       ELSE [source |-> blogs[Val(at)], out |-> blogs[Val(at)]]
              IN  [status |-> 200, detail |-> "", found |-> TRUE, data |-> <<a.out>>,
                   source |-> [blogs EXCEPT ![Val(at)] = a.source]]

\* get_blog_by_id lines 119-145 on the loaded list: found FALSE is the None
\* result; source is the list as it is after the call
lookup_blog(blogs, blog_id, expertise_level) ==
    LET at == FindById(blogs, blog_id) IN
    IF IsNone(at)
    THEN [status |-> 200, detail |-> "", found |-> FALSE, data |-> <<>>, source |-> blogs]
    ELSE LET target_blog == blogs[Val(at)] IN
         IF ~Truthy(expertise_level)
         THEN [status |-> 200, detail |-> "", found |-> TRUE, data |-> <<target_blog>>, source |-> blogs]
         ELSE IF Val(expertise_level) \notin Range(ExpertiseLevels)
         THEN [status |-> 400, detail |-> InvalidLevelDetail, found |-> FALSE, data |-> <<>>, source |-> blogs]
         ELSE LET a == AdaptOrKeep(target_blog, Val(expertise_level)) IN
              [status |-> 200, detail |-> "", found |-> TRUE, data |-> <<a.out>>,
               source |-> [blogs EXCEPT ![Val(at)] = a.source]]

----------------------------------------------------------------------------
(* The stores and the queries the model draws from *)

ExcerptText == <<"A", "n", " ", "e", "x", "c", "e", "r", "p", "t", ".">>

FullMap(n) ==
    (S_beginner :> ("beginner text " \o n)) @@
    (S_intermediate :> ("intermediate text " \o n)) @@
    (S_expert :> ("expert text " \o n))

\* a record that lacks the expert rendering (test_blog_service.py:166-183)
PartMap(n) ==
    (S_beginner :> ("beginner text " \o n)) @@
    (S_intermediate :> ("intermediate text " \o n))

RawBlog(id, docType, tags, map) ==
    [id |-> id, title |-> <<"T", "i", "t", "l", "e">>, excerpt |-> ExcerptText,
     content |-> DictContent(map),
     author |-> [name |-> "Test Author", avatar |-> "https://example.com/avatar.jpg"],
     publishedAt |-> "2024-01-15", readTime |-> [minutes |-> 8, suffix |-> " min read"],
     tags |-> tags, coverImage |-> "https://example.com/cover.jpg",
     avgRating |-> 4, totalRatings |-> 100, docType |-> docType]

B1 == RawBlog("1", S_community, <<S_python, S_api>>, FullMap("1"))
B2 == RawBlog("2", S_official, <<S_DevOps>>, FullMap("2"))
B3 == RawBlog("3", S_tutorial, <<S_security>>, PartMap("3"))
B4 == RawBlog("4", S_official, <<>>, FullMap("4"))
B5 == RawBlog("5", S_community, <<S_devops, S_python>>, FullMap("5"))
B6 == RawBlog("6", S_invalid_type, <<>>, FullMap("6"))
\* a record the Blog model rejects: its excerpt is shorter than 10 characters
BadBlog == [B1 EXCEPT !.excerpt = <<"s", "h", "o", "r", "t">>]

JsonFile(blogs) == [file |-> "json", blogs |-> blogs]

Stores ==
    { JsonFile(<<>>), JsonFile(<<B1>>), JsonFile(<<B3>>), JsonFile(<<B1, B2>>),
      JsonFile(<<B2, B3, B5>>), JsonFile(<<B1, B2, B3, B4, B5, B6>>),
      JsonFile(<<B1, BadBlog>>),
      [file |-> "missing", blogs |-> <<>>], [file |-> "corrupt", blogs |-> <<>>] }

DocTypeArgs ==
    { None, Some(<<>>), Some(S_official), Some(S_community),
      Some(<<" ">> \o S_official), Some(S_invalid_type) }

LevelArgs ==
    { None, Some(<<>>), Some(S_beginner), Some(S_intermediate), Some(S_expert),
      Some(<<" ", "E", "x", "p", "e", "r", "t">>), Some(S_super_expert) }

\* the tags query parameter of GET /blogs, a comma-separated string
TagsQueryArgs ==
    { None, Some(<<>>), Some(S_devops \o <<",">> \o S_security), Some(<<" ", ",", " ">>),
      Some(<<"P", "y", "t", "h", "o", "n", " ">>) }

\* the tags argument of filter_blogs, a list of strings
TagListArgs ==
    { None, Some(<<>>), Some(<<S_devops, S_security>>), Some(<<<<" ">>>>),
      Some(<<<<"P", "y", "t", "h", "o", "n", " ">>, <<>>>>) }

BlogIdArgs == {"1", "3", "999", "uuid-1"}

----------------------------------------------------------------------------
(* api.py: the retrieval endpoints *)

RECURSIVE Split(_, _)
\* str.split(sep) for a one-character separator
Split(s, sep) ==
    IF \E i \in DOMAIN s : s[i] = sep
    THEN LET i == CHOOSE k \in DOMAIN s : s[k] = sep /\ \A j \in 1..(k - 1) : s[j] # sep
         IN  <<SubSeq(s, 1, i - 1)>> \o Split(SubSeq(s, i + 1, Len(s)), sep)
    ELSE <<s>>

\* get_blogs lines 57-59: parsed_tags
ParseTags(tags) ==
    IF ~Truthy(tags)
    THEN None
    ELSE LET parts == Split(Val(tags), ",")
             kept == SelectSeq(parts, LAMBDA t : Strip(t) # <<>>)
         IN  Some([i \in DOMAIN kept |-> Strip(kept[i])])

NoRead ==
    [op |-> "none", from_cache |-> TRUE, docType |-> None, tags |-> None, level |-> None, blog_id |-> "",
     input |-> <<>>, status |-> 0, detail |-> "", found |-> FALSE, data |-> <<>>,
     total |-> 0, filteredTotal |-> 0, handed_before |-> 0, store_reads |-> 0]

\* total is counted on the filtered list
BlogsResponseFilteredTotal(asked, all_blogs, filtered_blogs) ==
    [asked EXCEPT !.status = 200, !.data = filtered_blogs,
                  !.total = Len(filtered_blogs),
                  !.filteredTotal = Len(filtered_blogs)]

\* api.py:76-81: the answer of a listing that succeeded
BlogsResponse(asked, all_blogs, filtered_blogs) ==
    [asked EXCEPT !.status = 200, !.data = filtered_blogs,
                  !.total = Len(all_blogs),
                  !.filteredTotal = Len(filtered_blogs)]

\* GET /blogs (api.py:35-91)
GetBlogs(docType, tags, expertiseLevel) ==
    LET all == load_blogs_from_shared(cached_blogs, store)
        asked == [NoRead EXCEPT !.handed_before = upload.handed, !.op = "get_blogs", !.docType = docType,
                                !.tags = tags, !.level = expertiseLevel]
    IN
    /\ lastRead.op = "none"
    /\ IF all.raised
       THEN /\ lastRead' = [asked EXCEPT !.status = all.exc.status, !.detail = all.exc.detail,
                                          !.store_reads = all.opened]
            /\ cached_blogs' = all.cache
       ELSE LET again == load_blogs_from_shared(all.cache, store)
                r == filter_blogs(again.blogs, docType, ParseTags(tags), expertiseLevel)
                loaded == [asked EXCEPT !.store_reads = all.opened + again.opened]
            IN  /\ lastRead' =
                      IF r.status # 200
                      THEN [loaded EXCEPT !.status = r.status, !.detail = r.detail]
                      ELSE BlogsResponse(loaded, all.blogs, r.data)
                /\ cached_blogs' = Some(r.source)
    /\ UNCHANGED <<store, call, upload_cached_blogs, persisted, upload, uuid_counter>>

\* GET /blogs/{blog_id} (api.py:93-141)
GetBlogById(blog_id, expertiseLevel) ==
    LET all == load_blogs_from_shared(cached_blogs, store)
        asked == [NoRead EXCEPT !.handed_before = upload.handed, !.op = "get_blog_by_id", !.blog_id = blog_id,
                                !.level = expertiseLevel, !.store_reads = all.opened]
    IN
    /\ lastRead.op = "none"
    /\ IF all.raised
       THEN /\ lastRead' = [asked EXCEPT !.status = all.exc.status, !.detail = all.exc.detail]
            /\ cached_blogs' = all.cache
       ELSE LET r == lookup_blog(all.blogs, blog_id, expertiseLevel) IN
            /\ lastRead' =
                  IF r.status # 200
                  THEN [asked EXCEPT !.status = r.status, !.detail = r.detail]
                  ELSE IF ~r.found
                  THEN [asked EXCEPT !.status = 404,
                                     !.detail = "Blog with ID '" \o blog_id \o "' not found"]
                  ELSE [asked EXCEPT !.status = 200, !.found = TRUE, !.data = r.data]
            /\ cached_blogs' = Some(r.source)
    /\ UNCHANGED <<store, call, upload_cached_blogs, persisted, upload, uuid_counter>>

\* BlogService.filter_blogs called on a list by a client of the service: the
\* cached snapshot (as get_filtered_blogs does) or the list a listing returned
FilterBlogs(fromCache, doc_type, tags, expertise_level) ==
    /\ ~IsNone(cached_blogs)
    /\ IF fromCache
       THEN lastRead.op = "none"
       ELSE lastRead.op \in {"get_blogs", "filter_blogs"} /\ lastRead.status = 200
    /\ LET blogs == IF fromCache THEN Val(cached_blogs) ELSE lastRead.data
           r == filter_blogs(blogs, doc_type, tags, expertise_level)
           asked == [NoRead EXCEPT !.handed_before = upload.handed,
                                   !.op = "filter_blogs", !.docType = doc_type,
                                   !.tags = tags, !.level = expertise_level,
                                   !.from_cache = fromCache,
                                   !.input = IF fromCache THEN <<>> ELSE blogs]
       IN  /\ lastRead' =
                 IF r.status # 200
                 THEN [asked EXCEPT !.status = r.status, !.detail = r.detail]
                 ELSE [asked EXCEPT !.status = 200, !.data = r.data,
                                    !.total = Len(blogs), !.filteredTotal = Len(r.data)]
           /\ cached_blogs' = IF fromCache THEN Some(r.source) ELSE cached_blogs
    /\ UNCHANGED <<store, call, upload_cached_blogs, persisted, upload, uuid_counter>>

----------------------------------------------------------------------------
(* services/markdown_validator.py: MarkdownValidator *)

AtLineStart(s, i) == i = 1 \/ s[i - 1] = NL

RECURSIVE CountFences(_)
\* len(re.findall(r'```', content)): non-overlapping, leftmost first
CountFences(s) ==
    IF Len(s) < 3 THEN 0
    ELSE IF s[1] = Backtick /\ s[2] = Backtick /\ s[3] = Backtick
    THEN 1 + CountFences(SubSeq(s, 4, Len(s)))
    ELSE CountFences(Tail(s))

\* str.count(c) for one character
Count(s, c) == Cardinality({i \in DOMAIN s : s[i] = c})

\* re.search(r'^#+\s', content, re.MULTILINE)
HasHeader(s) ==
    \E i \in DOMAIN s : \E j \in i..Len(s) :
        /\ AtLineStart(s, i)
        /\ \A k \in i..j : s[k] = "#"
        /\ j + 1 <= Len(s) /\ s[j + 1] \in Whitespace

\* re.search(r'\*\*.*\*\*', content): '.' matches no newline
HasBold(s) ==
    \E i \in DOMAIN s : \E j \in DOMAIN s :
        /\ i + 1 <= Len(s) /\ j + 1 <= Len(s) /\ j >= i + 2
        /\ s[i] = "*" /\ s[i + 1] = "*" /\ s[j] = "*" /\ s[j + 1] = "*"
        /\ \A k \in (i + 2)..(j - 1) : s[k] # NL

\* re.search(r'\*.*\*', content)
HasItalic(s) ==
    \E i \in DOMAIN s : \E j \in DOMAIN s :
        /\ j > i /\ s[i] = "*" /\ s[j] = "*"
        /\ \A k \in (i + 1)..(j - 1) : s[k] # NL

\* re.search(r'^-\s', content, re.MULTILINE)
HasList(s) ==
    \E i \in DOMAIN s :
        AtLineStart(s, i) /\ s[i] = "-" /\ i + 1 <= Len(s) /\ s[i + 1] \in Whitespace

\* the check for markdown patterns is left out
validate_without_pattern_check(content) ==
    IF Strip(content) = <<>>
    THEN [is_valid |-> FALSE, errors |-> <<"Content is empty">>]
    ELSE LET e1 == IF CountFences(content) % 2 # 0
                   THEN <<"Unclosed code block detected">> ELSE <<>>
             e2 == IF Count(content, "[") # Count(content, "]")
                   THEN <<"Unclosed link bracket detected">> ELSE <<>>
             errors == e1 \o e2
         IN  [is_valid |-> Len(errors) = 0, errors |-> errors]

\* the check stops at the first defect it finds
validate_first_defect_only(content) ==
    IF Strip(content) = <<>>
    THEN [is_valid |-> FALSE, errors |-> <<"Content is empty">>]
    ELSE IF CountFences(content) % 2 # 0
    THEN [is_valid |-> FALSE, errors |-> <<"Unclosed code block detected">>]
    ELSE IF Count(content, "[") # Count(content, "]")
    THEN [is_valid |-> FALSE, errors |-> <<"Unclosed link bracket detected">>]
    ELSE IF ~(HasHeader(content) \/ HasBold(content) \/ HasItalic(content) \/ HasList(content))
    THEN [is_valid |-> FALSE, errors |-> <<"No markdown formatting detected">>]
    ELSE [is_valid |-> TRUE, errors |-> <<>>]

\* MarkdownValidator.validate: (is_valid, errors)
validate(content) ==
    IF Strip(content) = <<>>
    THEN [is_valid |-> FALSE, errors |-> <<"Content is empty">>]
    ELSE LET e1 == IF CountFences(content) % 2 # 0
                   THEN <<"Unclosed code block detected">> ELSE <<>>
             e2 == IF Count(content, "[") # Count(content, "]")
                   THEN <<"Unclosed link bracket detected">> ELSE <<>>
             e3 == IF ~(HasHeader(content) \/ HasBold(content)
                        \/ HasItalic(content) \/ HasList(content))
                   THEN <<"No markdown formatting detected">> ELSE <<>>
             errors == e1 \o e2 \o e3
         IN  [is_valid |-> Len(errors) = 0, errors |-> errors]

----------------------------------------------------------------------------
(* services/upload_service.py: the metadata helpers *)

\* the end of the line that holds position i: the last position before the
\* next newline
LineEnd(s, i) ==
    IF \E k \in i..Len(s) : s[k] = NL
    THEN (CHOOSE k \in i..Len(s) : s[k] = NL /\ \A j \in i..(k - 1) : s[j] # NL) - 1
    ELSE Len(s)

\* the end of the whitespace run that starts at position i
RunEnd(s, i) ==
    CHOOSE k \in i..Len(s) :
        /\ \A j \in i..k : s[j] \in Whitespace
        /\ (k = Len(s) \/ s[k + 1] \notin Whitespace)

\* the ends e of \s+ (begun at i + 1) after which (.+)$ can match
TitleSplits(s, i) ==
    {e \in (i + 1)..RunEnd(s, i + 1) : e + 1 <= Len(s) /\ s[e + 1] # NL}

\* r'^#\s+(.+)$' (MULTILINE) matches with its '#' at position i
H1MatchAt(s, i) ==
    /\ AtLineStart(s, i) /\ s[i] = "#"
    /\ i + 1 <= Len(s) /\ s[i + 1] \in Whitespace
    /\ TitleSplits(s, i) # {}

\* group(1) of the match at i: \s+ is greedy, .+ runs to the end of its line
H1Group(s, i) ==
    LET e == CHOOSE x \in TitleSplits(s, i) : \A y \in TitleSplits(s, i) : y <= x
    IN  SubSeq(s, e + 1, LineEnd(s, e + 1))

RECURSIVE ReplaceAll(_, _, _)
\* str.replace(old, new)
ReplaceAll(s, old, new) ==
    IF Len(s) < Len(old) THEN s
    ELSE IF SubSeq(s, 1, Len(old)) = old
    THEN new \o ReplaceAll(SubSeq(s, Len(old) + 1, Len(s)), old, new)
    ELSE <<Head(s)>> \o ReplaceAll(Tail(s), old, new)

\* str.title(): a letter is upper-cased after a non-letter, lower-cased after a letter
TitleCase(s) ==
    [i \in DOMAIN s |->
        IF i = 1 \/ ~IsLetter(s[i - 1]) THEN UpperChar(s[i]) ELSE LowerChar(s[i])]

\* a heading of any depth is taken: the hashes before the last one of a run
\* at the start of a line are skipped
extract_title_any_depth(content, filename) ==
    LET deep(k) == \E i \in 1..k :
                      /\ AtLineStart(content, i)
                      /\ \A j \in i..k : content[j] = "#"
                      /\ k + 1 <= Len(content) /\ content[k + 1] \in Whitespace
                      /\ TitleSplits(content, k) # {}
    IN  IF \E k \in DOMAIN content : deep(k)
        THEN LET k == CHOOSE x \in DOMAIN content :
                          deep(x) /\ \A y \in 1..(x - 1) : ~deep(y)
             IN  Strip(H1Group(content, k))
        ELSE TitleCase(ReplaceAll(ReplaceAll(filename, <<".", "m", "d">>, <<>>), <<"-">>, <<" ">>))

\* UploadService._extract_title
extract_title(content, filename) ==
    IF \E i \in DOMAIN content : H1MatchAt(content, i)
    THEN LET i == CHOOSE k \in DOMAIN content :
                      H1MatchAt(content, k) /\ \A j \in 1..(k - 1) : ~H1MatchAt(content, j)
         IN  Strip(H1Group(content, i))
    ELSE TitleCase(ReplaceAll(ReplaceAll(filename, <<".", "m", "d">>, <<>>), <<"-">>, <<" ">>))

MarkdownPunctuation == {"#", "*", Backtick, "[", "]", "(", ")"}

RECURSIVE SplitOn(_, _)
\* str.split(sep) for a separator of any length
SplitOn(s, sep) ==
    IF \E i \in 1..(Len(s) - Len(sep) + 1) : SubSeq(s, i, i + Len(sep) - 1) = sep
    THEN LET i == CHOOSE k \in 1..(Len(s) - Len(sep) + 1) :
                      /\ SubSeq(s, k, k + Len(sep) - 1) = sep
                      /\ \A j \in 1..(k - 1) : SubSeq(s, j, j + Len(sep) - 1) # sep
         IN  <<SubSeq(s, 1, i - 1)>> \o SplitOn(SubSeq(s, i + Len(sep), Len(s)), sep)
    ELSE <<s>>

\* the default of max_length in _generate_excerpt
ExcerptMaxLength == 150

\* s.rsplit(' ', 1)[0]
RSplitSpaceHead(s) ==
    IF \E i \in DOMAIN s : s[i] = " "
    THEN SubSeq(s, 1, (CHOOSE i \in DOMAIN s : s[i] = " " /\ \A j \in (i + 1)..Len(s) : s[j] # " ") - 1)
    ELSE s

\* UploadService._generate_excerpt
generate_excerpt(content) ==
    LET clean_text == SelectSeq(content, LAMBDA c : c \notin MarkdownPunctuation)
        paragraphs == SplitOn(clean_text, <<NL, NL>>)
        first_para ==
            IF \E i \in DOMAIN paragraphs : Strip(paragraphs[i]) # <<>>
            THEN paragraphs[CHOOSE i \in DOMAIN paragraphs :
                               /\ Strip(paragraphs[i]) # <<>>
                               /\ \A j \in 1..(i - 1) : Strip(paragraphs[j]) = <<>>]
            ELSE <<>>
    IN  IF Len(first_para) <= ExcerptMaxLength
        THEN first_para
        ELSE RSplitSpaceHead(SubSeq(first_para, 1, ExcerptMaxLength)) \o <<".", ".", ".">>

\* len(content.split()): whitespace-delimited tokens
WordCount(s) ==
    Cardinality({i \in DOMAIN s : s[i] \notin Whitespace /\ (i = 1 \/ s[i - 1] \in Whitespace)})

WordsPerMinute == 200

\* round(n / d) as Python rounds: halves go to the even neighbour
RoundDiv(n, d) ==
    LET q == n \div d
        r == n % d
    IN  IF 2 * r < d THEN q
        ELSE IF 2 * r > d THEN q + 1
        ELSE IF q % 2 = 0 THEN q ELSE q + 1

\* UploadService._calculate_read_time
calculate_read_time(content) ==
    LET minutes == IF RoundDiv(WordCount(content), WordsPerMinute) > 1
                   THEN RoundDiv(WordCount(content), WordsPerMinute) ELSE 1
    IN  [minutes |-> minutes, suffix |-> " min read"]

\* UploadService._extract_tags
extract_tags(content) ==
    << <<"T", "e", "c", "h">>, <<"T", "u", "t", "o", "r", "i", "a", "l">>,
       <<"D", "o", "c", "u", "m", "e", "n", "t", "a", "t", "i", "o", "n">> >>

\* UploadService._select_cover_image
select_cover_image(title) ==
    "https://images.unsplash.com/photo-1516116216624-53e697fedbea?w=800&q=80"

----------------------------------------------------------------------------
(* services/content_generator.py: ContentGenerator *)

RECURSIVE Join(_, _)
\* sep.join(parts)
Join(parts, sep) ==
    IF parts = <<>> THEN <<>>
    ELSE IF Len(parts) = 1 THEN parts[1]
    ELSE parts[1] \o sep \o Join(Tail(parts), sep)

SimplifyLines == 10

\* ContentGenerator._simplify_content; the closing notice is one element of
\* the result
simplify_content(content) ==
    LET lines == Split(content, NL)
        first == SubSeq(lines, 1, IF Len(lines) < SimplifyLines THEN Len(lines) ELSE SimplifyLines)
    IN  Join(SelectSeq(first, LAMBDA l : Strip(l) # <<>>), <<NL>>)
            \o <<"\n\n[Content simplified for beginners...]">>

\* the fixed text of the three f-strings (content_generator.py:17-73): before
\* the title, between the title and the body, and after the body
TemplateHead == "# "
TemplateMiddle(level) ==
    IF level = "beginner"
    THEN " - Beginner's Guide\n\n## Introduction for Beginners\n\nThis is a simplified version of the content, perfect for those just starting out.\n\n### Key Concepts Explained Simply\n\n"
    ELSE IF level = "intermediate"
    THEN " - Comprehensive Guide\n\n## Overview\n\nThis guide provides a balanced view of the topic with practical examples.\n\n### Detailed Explanation\n\n"
    ELSE " - Expert Deep Dive\n\n## Advanced Concepts\n\nThis expert-level guide explores advanced topics and edge cases.\n\n### Technical Deep Dive\n\n"
TemplateTail(level) ==
    IF level = "beginner"
    THEN "\n\n### Summary\n\nThis beginner version breaks down complex topics into easy-to-understand concepts.\n\n**Note: This is mock content. In production, AWS Bedrock will generate appropriate beginner-level content.**\n"
    ELSE IF level = "intermediate"
    THEN "\n\n### Practical Applications\n\nThis intermediate version includes the original content with additional context and examples.\n\n**Note: This is mock content. In production, AWS Bedrock will generate enhanced intermediate-level content.**\n"
    ELSE "\n\n### Advanced Techniques and Optimizations\n\n- Performance considerations\n- Scalability patterns\n- Security implications\n- Best practices for production\n\n### References and Further Reading\n\nThis expert version includes advanced concepts and professional insights.\n\n**Note: This is mock content. In production, AWS Bedrock will generate sophisticated expert-level content with advanced topics.**\n"

\* one rendering: the f-string of a level with its two holes filled. The
\* result is a text whose elements are the characters of the title and of
\* the body, and the fixed passages of the template, each as one element
Rendering(level, title, body) ==
    <<TemplateHead>> \o title \o <<TemplateMiddle(level)>> \o body \o <<TemplateTail(level)>>

\* the expert rendering is built from the simplified text
generate_expertise_versions_lossy(original_content, title) ==
    (S_beginner :> Rendering("beginner", title, simplify_content(original_content))) @@
    (S_intermediate :> Rendering("intermediate", title, original_content)) @@
    (S_expert :> Rendering("expert", title, simplify_content(original_content)))

\* ContentGenerator.generate_expertise_versions
generate_expertise_versions(original_content, title) ==
    (S_beginner :> Rendering("beginner", title, simplify_content(original_content))) @@
    (S_intermediate :> Rendering("intermediate", title, original_content)) @@
    (S_expert :> Rendering("expert", title, original_content))

----------------------------------------------------------------------------
(* Upload requests the model draws from *)

T_hello ==
    <<"#", " ", "H", "e", "l", "l", "o", " ", "W", "o", "r", "l", "d", NL, NL, "T", "h",
      "i", "s", " ", "i", "s", " ", "a", " ", "p", "a", "r", "a", "g", "r", "a", "p", "h",
      ".">>
T_plain ==
    <<"P", "l", "a", "i", "n", " ", "t", "e", "x", "t", " ", "w", "i", "t", "h", "o", "u",
      "t", " ", "m", "a", "r", "k", "s", ".">>
T_broken ==
    <<Backtick, Backtick, Backtick, NL, "[", "u", "n", "c", "l", "o", "s", "e", "d", " ", "t", "e", "x",
      "t">>
T_short ==
    <<"s", "h", "o", "r", "t">>
T_blank ==
    <<" ", " ", " ", " ", " ", " ", " ", " ", " ", " ">>
T_hi ==
    <<"#", " ", "H", "i", NL, NL, "S", "o", "m", "e", " ", "b", "o", "d", "y", " ", "t",
      "e", "x", "t", ".">>
T_list ==
    <<"-", " ", "i", "t", "e", "m", " ", "o", "n", "e", NL, "-", " ", "i", "t", "e", "m",
      " ", "t", "w", "o">>
F_hello_md ==
    <<"h", "e", "l", "l", "o", ".", "m", "d">>
F_my_notes_md ==
    <<"m", "y", "-", "n", "o", "t", "e", "s", ".", "m", "d">>
F_notes_txt ==
    <<"n", "o", "t", "e", "s", ".", "t", "x", "t">>

\* (filename, content) of the upload requests
UploadRequests ==
    { <<F_hello_md, T_hello>>, <<F_hello_md, T_hi>>, <<F_my_notes_md, T_list>>,
      <<F_hello_md, T_plain>>, <<F_hello_md, T_broken>>, <<F_hello_md, T_blank>>,
      <<F_hello_md, T_short>>, <<F_notes_txt, T_hello>> }

UploadSources == {"file_upload"}

----------------------------------------------------------------------------
(* models/upload.py: MarkdownUploadRequest *)

MinFilenameLen == 1
MaxFilenameLen == 255
MinContentLen == 10
MaxContentLen == 1048576

EndsWith(s, suffix) ==
    Len(s) >= Len(suffix) /\ SubSeq(s, Len(s) - Len(suffix) + 1, Len(s)) = suffix

\* the extension of the filename is not looked at
RequestValidAnyName(filename, content) ==
    /\ Len(filename) >= MinFilenameLen /\ Len(filename) <= MaxFilenameLen
    /\ Len(content) >= MinContentLen /\ Len(content) <= MaxContentLen

\* the constraints FastAPI checks before upload_markdown runs
RequestValid(filename, content) ==
    /\ Len(filename) >= MinFilenameLen /\ Len(filename) <= MaxFilenameLen
    /\ EndsWith(filename, <<".", "m", "d">>)
    /\ Len(content) >= MinContentLen /\ Len(content) <= MaxContentLen

----------------------------------------------------------------------------
(* services/upload_service.py and api.py: the upload path *)

RECURSIVE JoinText(_, _)
\* sep.join(parts) for texts
JoinText(parts, sep) ==
    IF parts = <<>> THEN ""
    ELSE IF Len(parts) = 1 THEN parts[1]
    ELSE parts[1] \o sep \o JoinText(Tail(parts), sep)

\* upload_service.py:31
InvalidMarkdown(errors) == "Invalid markdown: " \o JoinText(errors, ", ")

\* str(uuid.uuid4()): the n-th identity drawn
UUID(n) == "uuid-" \o ToString(n)

\* list(generated_content.keys()): the keys in the order the dict literal of
\* content_generator.py:77-81 inserts them
dict_keys(generated) == SelectSeq(ExpertiseLevels, LAMBDA k : k \in DOMAIN generated)

\* a text of one character more than the request model allows
TooLongText == [i \in 1..(MaxContentLen + 1) |-> "a"]

\* the same arguments with the other category written in
BlogArgsOfficial(id, title, excerpt, content, generated_content) ==
    [id |-> id, title |-> title, excerpt |-> excerpt,
     content |-> DictContent(generated_content),
     author |-> [name |-> "Tech Writer",
                 avatar |-> "https://api.dicebear.com/7.x/avataaars/svg?seed=TechWriter"],
     publishedAt |-> "today", readTime |-> calculate_read_time(content),
     tags |-> extract_tags(content), coverImage |-> select_cover_image(title),
     avgRating |-> 0, totalRatings |-> 0, docType |-> S_official]

\* upload_service.py:47-63: the keyword arguments of Blog(...)
BlogArgs(id, title, excerpt, content, generated_content) ==
    [id |-> id, title |-> title, excerpt |-> excerpt,
     content |-> DictContent(generated_content),
     author |-> [name |-> "Tech Writer",
                 avatar |-> "https://api.dicebear.com/7.x/avataaars/svg?seed=TechWriter"],
     publishedAt |-> "today", readTime |-> calculate_read_time(content),
     tags |-> extract_tags(content), coverImage |-> select_cover_image(title),
     avgRating |-> 0, totalRatings |-> 0, docType |-> S_community]

\* upload_service.py:66, self.blog_service.add_blog(blog): BlogService
\* (blog_service.py:11-145) defines no add_blog, so the attribute lookup raises
\* AttributeError; stored lists what the store took over, cache is the
\* instance's _cached_blogs afterwards
add_blog(cache, blog) ==
    [raised |-> TRUE, exc |-> "AttributeError", stored |-> <<>>, cache |-> cache]

NoBody == [blog_id |-> "", title |-> <<>>, processing_time_ms |-> 0, expertise_levels |-> <<>>]
NoResponse == [status |-> 0, message |-> "", detail |-> "", body |-> NoBody]
ErrorResponse(code, detail) == [NoResponse EXCEPT !.status = code, !.detail = detail]

\* api.py:178-186: the answer of upload_markdown to an exception of the service;
\* pydantic's ValidationError is a ValueError
UploadExceptionResponse(exc, text) ==
    IF exc \in {"ValueError", "ValidationError"}
    THEN ErrorResponse(400, text)
    ELSE ErrorResponse(500, "Internal server error")

NoUpload ==
    [pc |-> "idle", n |-> 0, handed |-> 0, filename |-> <<>>, content |-> <<>>,
     title |-> <<>>, excerpt |-> <<>>, trace |-> <<>>, synthesis |-> "none",
     generated |-> None, built |-> None, overdue |-> FALSE, response |-> NoResponse]

\* the verdict of the validator is ignored
ValidationIgnored(verdict) == TRUE

\* upload_service.py:27-37: validation; FALSE aborts the upload
ValidationPasses(verdict) == verdict.is_valid

\* POST /api/upload/markdown up to the await of upload_service.py:41: the
\* request check, steps 1-3 and the call of the generator
UploadBegin(filename, content) ==
    /\ upload.pc \in {"idle", "done"}
    /\ upload.n < MaxUploads
    /\ LET fresh == [NoUpload EXCEPT !.n = upload.n + 1, !.handed = upload.handed,
                                     !.filename = filename, !.content = content]
           verdict == validate(content)
       IN  upload' =
             IF ~RequestValid(filename, content)
             THEN [fresh EXCEPT !.pc = "done",
                                !.response = ErrorResponse(422, "request validation error")]
             ELSE IF ~ValidationPasses(verdict)
             THEN [fresh EXCEPT !.pc = "done", !.trace = <<"validate">>,
                                !.response = UploadExceptionResponse(
                                                 "ValueError", InvalidMarkdown(verdict.errors))]
             ELSE [fresh EXCEPT !.pc = "awaiting",
                                !.title = extract_title(content, filename),
                                !.excerpt = generate_excerpt(content),
                                !.trace = <<"validate", "_extract_title", "_generate_excerpt",
                                            "generate_expertise_versions">>]
    /\ UNCHANGED <<store, call, cached_blogs, upload_cached_blogs, persisted, lastRead, uuid_counter>>

\* time passes while the call of upload_service.py:41-44 is pending, beyond
\* any budget the step may be given: the await is not wrapped in a timeout,
\* so nothing in the service reacts
BudgetElapses ==
    /\ upload.pc = "awaiting"
    /\ ~upload.overdue
    /\ upload' = [upload EXCEPT !.overdue = TRUE]
    /\ UNCHANGED <<store, call, cached_blogs, upload_cached_blogs, persisted, lastRead, uuid_counter>>

\* the rest of the upload, from the await on: the generator returns its
\* mapping or raises (test_upload_service.py:176-199); steps 5 and 6; the answer
UploadResume(returns, elapsed_ms) ==
    /\ upload.pc = "awaiting"
    /\ IF ~returns
       THEN /\ upload' = [upload EXCEPT !.pc = "done", !.synthesis = "raised",
                              !.response = UploadExceptionResponse("Exception", "AI service error")]
            /\ UNCHANGED <<uuid_counter, persisted, upload_cached_blogs>>
       ELSE LET generated_content == generate_expertise_versions(upload.content, upload.title)
                args == BlogArgs(UUID(uuid_counter + 1), upload.title, upload.excerpt,
                                 upload.content, generated_content)
            IN
            /\ uuid_counter' = uuid_counter + 1
            /\ IF ~BlogFieldsValid(args)
               THEN /\ upload' = [upload EXCEPT !.pc = "done", !.synthesis = "returned",
                                      !.generated = Some(generated_content),
                                      !.trace = @ \o <<"Blog">>,
                                      !.response = UploadExceptionResponse(
                                                       "ValidationError", "validation error for Blog")]
                    /\ UNCHANGED <<persisted, upload_cached_blogs>>
               ELSE LET blog == Blog(args)
                        added == add_blog(upload_cached_blogs, blog)
                    IN
                    /\ persisted' = persisted \o added.stored
                    /\ upload_cached_blogs' = added.cache
                    /\ upload' =
                         [upload EXCEPT
                            !.pc = "done", !.synthesis = "returned",
                            !.generated = Some(generated_content),
                            !.built = Some(blog),
                            !.handed = @ + 1,
                            !.trace = @ \o <<"Blog", "add_blog">>,
                            !.response =
                               IF added.raised
                               THEN UploadExceptionResponse(added.exc, "")
                               ELSE [status |-> 201,
                                     message |-> "Markdown uploaded and blog generated successfully",
                                     detail |-> "",
                                     body |-> [blog_id |-> blog.id, title |-> blog.title,
                                               processing_time_ms |-> elapsed_ms,
                                               expertise_levels |-> dict_keys(generated_content)]]]
    /\ UNCHANGED <<store, call, cached_blogs, lastRead>>

----------------------------------------------------------------------------
(* The methods of MarkdownValidator and UploadService called on their own, as
   the unit tests call them *)

TextAlphabet == {"#", "*", "-", " ", "\t", NL, "a", "[", "]"}

\* a character, or a fence of three backquotes
Fragments == {<<c>> : c \in TextAlphabet} \cup {<<Backtick, Backtick, Backtick>>}

RECURSIVE TextsOf(_)
\* the texts of at most n fragments
TextsOf(n) ==
    IF n = 0 THEN {<<>>}
    ELSE LET shorter == TextsOf(n - 1)
         IN  shorter \cup {t \o f : t \in shorter, f \in Fragments}

T_sub ==
    <<"#", "#", " ", "S", "u", "b", NL, NL, "B", "o", "d", "y", " ", "t", "e", "x", "t",
      ".">>
T_sub_then_top ==
    <<"#", "#", " ", "S", "u", "b", NL, "#", " ", "T", "o", "p", NL, NL, "B", "o", "d",
      "y">>
T_two_tops ==
    <<"#", " ", "O", "n", "e", NL, "t", "e", "x", "t", NL, "#", " ", "T", "w", "o">>
T_bold ==
    <<"*", "*", "b", "o", "l", "d", "*", "*", " ", "t", "e", "x", "t">>
F_my_Blog_post_md ==
    <<"m", "y", "-", "B", "L", "O", "G", "-", "p", "o", "s", "t", ".", "m", "d">>
F_a_md_md ==
    <<"a", ".", "m", "d", ".", "m", "d">>

CallTexts ==
    TextsOf(MaxFragments)
        \cup {T_hello, T_hi, T_list, T_plain, T_broken, T_blank, T_short,
               T_sub, T_sub_then_top, T_two_tops, T_bold}

CallFilenames == {F_hello_md, F_my_Blog_post_md, F_a_md_md}

NoCall == [fn |-> "none", content |-> <<>>, filename |-> <<>>, result |-> <<>>]

\* MarkdownValidator().validate(content)
ValidateCall ==
    /\ call.fn = "none"
    /\ \E c \in CallTexts :
          call' = [fn |-> "validate", content |-> c, filename |-> <<>>, result |-> validate(c)]
    /\ UNCHANGED <<store, cached_blogs, upload_cached_blogs, persisted, lastRead, upload,
                   uuid_counter>>

\* UploadService()._extract_title(content, filename)
ExtractTitleCall ==
    /\ call.fn = "none"
    /\ \E c \in CallTexts, f \in CallFilenames :
          call' = [fn |-> "_extract_title", content |-> c, filename |-> f,
                   result |-> extract_title(c, f)]
    /\ UNCHANGED <<store, cached_blogs, upload_cached_blogs, persisted, lastRead, upload,
                   uuid_counter>>

\* UploadService()._generate_excerpt(content)
GenerateExcerptCall ==
    /\ call.fn = "none"
    /\ \E c \in CallTexts :
          call' = [fn |-> "_generate_excerpt", content |-> c, filename |-> <<>>,
                   result |-> generate_excerpt(c)]
    /\ UNCHANGED <<store, cached_blogs, upload_cached_blogs, persisted, lastRead, upload,
                   uuid_counter>>

\* UploadService()._calculate_read_time(content)
CalculateReadTimeCall ==
    /\ call.fn = "none"
    /\ \E c \in CallTexts :
          call' = [fn |-> "_calculate_read_time", content |-> c, filename |-> <<>>,
                   result |-> calculate_read_time(c)]
    /\ UNCHANGED <<store, cached_blogs, upload_cached_blogs, persisted, lastRead, upload,
                   uuid_counter>>

----------------------------------------------------------------------------
(* The system *)

ElapsedMs == {0, 7}

Init ==
    /\ store \in Stores
    /\ cached_blogs = None
    /\ upload_cached_blogs = None
    /\ persisted = <<>>
    /\ lastRead = NoRead
    /\ upload = NoUpload
    /\ uuid_counter = 0
    /\ call = NoCall

Listing == \E d \in DocTypeArgs, t \in TagsQueryArgs, l \in LevelArgs : GetBlogs(d, t, l)

Lookup == \E id \in BlogIdArgs, l \in LevelArgs : GetBlogById(id, l)

\* filter_blogs on the snapshot with any arguments, and on a list a listing
\* returned with a level alone
Filtering ==
    \/ \E d \in DocTypeArgs, t \in TagListArgs, l \in LevelArgs : FilterBlogs(TRUE, d, t, l)
    \/ \E l \in LevelArgs : FilterBlogs(FALSE, None, None, l)

\* the handler returns and its response leaves the service
Deliver ==
    /\ lastRead.op # "none"
    /\ lastRead' = NoRead
    /\ UNCHANGED <<store, call, cached_blogs, upload_cached_blogs, persisted, upload, uuid_counter>>

NextRetrieval == Listing \/ Lookup \/ Filtering \/ Deliver

\* the retrieval path alone, over every query of the model
SpecRetrieval == Init /\ [][NextRetrieval]_vars

\* the reads that run beside an upload
Reading ==
    \/ \E d \in {None, Some(S_community)}, l \in {None, Some(S_beginner)} : GetBlogs(d, None, l)
    \/ \E id \in {"1", "uuid-1"}, l \in {None, Some(S_expert)} : GetBlogById(id, l)

Uploading == \E r \in UploadRequests : UploadBegin(r[1], r[2])

Resuming == \E r \in BOOLEAN, ms \in ElapsedMs : UploadResume(r, ms)

Next == Reading \/ Deliver \/ Uploading \/ BudgetElapses \/ Resuming

\* uploads interleaved with reads
Spec == Init /\ [][Next]_vars

InitCalls ==
    /\ store = JsonFile(<<>>)
    /\ cached_blogs = None
    /\ upload_cached_blogs = None
    /\ persisted = <<>>
    /\ lastRead = NoRead
    /\ upload = NoUpload
    /\ uuid_counter = 0
    /\ call = NoCall

NextCalls == ValidateCall \/ ExtractTitleCall \/ GenerateExcerptCall \/ CalculateReadTimeCall

\* one call of one method, over the texts and filenames of the model
SpecCalls == InitCalls /\ [][NextCalls]_vars

----------------------------------------------------------------------------
(* What the claims speak of *)

IsListing == lastRead.op \in {"get_blogs", "filter_blogs"}
IsLookup == lastRead.op = "get_blog_by_id"

\* the list the last listing worked on
ListingInput ==
    IF lastRead.op = "filter_blogs" /\ ~lastRead.from_cache
    THEN lastRead.input
    ELSE Val(cached_blogs)

\* the requested tags, trimmed and lower-cased, blanks discarded
RequestedTags ==
    IF IsNone(lastRead.tags) THEN <<>>
    ELSE IF lastRead.op = "get_blogs" THEN CleanTags(Split(Val(lastRead.tags), ","))
    ELSE CleanTags(Val(lastRead.tags))

\* a category was asked for, and which
CategoryAsked == ~IsNone(lastRead.docType) /\ Strip(Val(lastRead.docType)) # <<>>
Category == Strip(Val(lastRead.docType))

\* an audience level was asked for, and which
LevelAsked == ~IsNone(lastRead.level) /\ Strip(Val(lastRead.level)) # <<>>
Level == Lower(Strip(Val(lastRead.level)))
ExactLevelAsked == ~IsNone(lastRead.level) /\ Val(lastRead.level) \in Range(ExpertiseLevels)

SurvivesCategory(b) == ~CategoryAsked \/ b.docType = Category
SurvivesTags(b) ==
    \/ RequestedTags = <<>>
    \/ \E i \in DOMAIN RequestedTags, j \in DOMAIN b.tags : Lower(b.tags[j]) = RequestedTags[i]

\* the records of the input that pass the category and the tag stage
Survivors == SelectSeq(ListingInput, LAMBDA b : SurvivesCategory(b) /\ SurvivesTags(b))

Adapted(b, L) == [b EXCEPT !.content = StrContent(b.content.map[L])]

\* the snapshot record a lookup by identity finds
Found(id) ==
    LET snap == Val(cached_blogs)
    IN  snap[CHOOSE i \in DOMAIN snap :
                 snap[i].id = id /\ \A j \in 1..(i - 1) : snap[j].id # id]
HasId(id) == \E i \in DOMAIN Val(cached_blogs) : Val(cached_blogs)[i].id = id

----------------------------------------------------------------------------
(* Claims about the retrieval path, checked under SpecRetrieval *)

\* C5: adaptation never mutates the stored snapshot: whatever listings and
\* lookups have run, with whatever levels, every record of the cached snapshot
\* still holds, as a mapping, the keys and values the store gave it; a query
\* without a level returns the mappings.
C5_SnapshotNeverMutated ==
    /\ ~IsNone(cached_blogs) =>
          /\ Len(Val(cached_blogs)) = Len(store.blogs)
          /\ \A i \in DOMAIN store.blogs :
                /\ IsDict(Val(cached_blogs)[i].content)
                /\ Val(cached_blogs)[i].content = store.blogs[i].content
    /\ (lastRead.status = 200 /\ ~LevelAsked /\ (IsLookup \/ lastRead.from_cache)) =>
          \A k \in DOMAIN lastRead.data : IsDict(lastRead.data[k].content)

\* a listing adapted a record of the snapshot and the snapshot still holds the mapping
C5_Witness ==
    /\ lastRead.op = "get_blogs" /\ lastRead.status = 200
    /\ lastRead.level = Some(S_beginner)
    /\ \E k \in DOMAIN lastRead.data : ~IsDict(lastRead.data[k].content)
    /\ \E i \in DOMAIN Val(cached_blogs) : IsDict(Val(cached_blogs)[i].content)

\* C6: for a listing of a loaded snapshot with a valid category (or none) and a level L, every
\* record that passes the category and tag stages and whose content is a
\* mapping with key L comes back as a copy whose content is the string
\* content[L], all other fields equal; the lookup by identity does the same
\* for the record it finds.
C6_AdaptedCopyReturned ==
    /\ (IsListing /\ lastRead.status # 500 /\ ExactLevelAsked
        /\ (CategoryAsked => Category \in Range(DocTypes))) =>
          /\ lastRead.status = 200
          /\ \A k \in DOMAIN Survivors :
                HasLevel(Survivors[k], Val(lastRead.level)) =>
                    \E j \in DOMAIN lastRead.data :
                        lastRead.data[j] = Adapted(Survivors[k], Val(lastRead.level))
    /\ (IsLookup /\ ExactLevelAsked /\ lastRead.status # 500 /\ HasId(lastRead.blog_id)
        /\ HasLevel(Found(lastRead.blog_id), Val(lastRead.level))) =>
          /\ lastRead.status = 200
          /\ lastRead.data = <<Adapted(Found(lastRead.blog_id), Val(lastRead.level))>>

\* C7: when a valid level is asked for and a record's content lacks that key
\* (it is a string already, or a mapping without the key), the listing and the
\* lookup hand the record back unchanged: no failure, and the record is not dropped.
C7_MissingLevelPassesThrough ==
    /\ (IsListing /\ lastRead.status # 500 /\ ExactLevelAsked
        /\ (CategoryAsked => Category \in Range(DocTypes))) =>
          /\ lastRead.status = 200
          /\ \A k \in DOMAIN Survivors :
                ~HasLevel(Survivors[k], Val(lastRead.level)) =>
                    \E j \in DOMAIN lastRead.data : lastRead.data[j] = Survivors[k]
    /\ (IsLookup /\ ExactLevelAsked /\ lastRead.status # 500 /\ HasId(lastRead.blog_id)
        /\ ~HasLevel(Found(lastRead.blog_id), Val(lastRead.level))) =>
          /\ lastRead.status = 200
          /\ lastRead.data = <<Found(lastRead.blog_id)>>

\* a list that holds an adapted record (content a string) and a record whose
\* mapping lacks "expert" was filtered for "expert", and came back as it was
C7_Witness ==
    /\ lastRead.op = "filter_blogs" /\ ~lastRead.from_cache
    /\ lastRead.level = Some(S_expert) /\ lastRead.status = 200
    /\ \E i \in DOMAIN lastRead.input : ~IsDict(lastRead.input[i].content)
    /\ \E i \in DOMAIN lastRead.input :
          IsDict(lastRead.input[i].content) /\ S_expert \notin DOMAIN lastRead.input[i].content.map
    /\ lastRead.data = lastRead.input

\* C8: a listing whose category (trimmed, not blank) is outside
\* {official, community} fails with the 400 error that names the two values,
\* whatever the snapshot, the tags and the level; nothing is returned.
C8_InvalidCategoryRejected ==
    (IsListing /\ lastRead.status # 500
     /\ CategoryAsked /\ Category \notin {S_official, S_community}) =>
        /\ lastRead.status = 400
        /\ lastRead.detail = "Invalid docType. Must be 'official' or 'community'"
        /\ lastRead.data = <<>>

\* C9: a listing whose level (trimmed, lower-cased, not blank) is outside
\* {beginner, intermediate, expert}, with a valid category or none, fails with
\* the 400 error that names the three values, whatever the snapshot and the tags.
C9_InvalidLevelRejected ==
    (IsListing /\ lastRead.status # 500
     /\ LevelAsked /\ Level \notin {S_beginner, S_intermediate, S_expert}
     /\ (CategoryAsked => Category \in {S_official, S_community})) =>
        /\ lastRead.status = 400
        /\ lastRead.detail =
              "Invalid expertiseLevel. Must be 'beginner', 'intermediate', or 'expert'"

\* the snapshot as the store gives it: every record validated by the Blog model
SnapshotOfStore == [i \in DOMAIN store.blogs |-> Blog(store.blogs[i])]

\* C10: with a valid category c and no other filter, the listing returns
\* exactly the snapshot records of category c, in snapshot order;
\* filteredTotal counts them and total is the snapshot size (two official
\* records out of six: filteredTotal 2, total 6).
C10_CategoryFilterExact ==
    (IsListing /\ lastRead.from_cache /\ lastRead.status # 500
     /\ ~IsNone(lastRead.docType) /\ Val(lastRead.docType) \in {S_official, S_community}
     /\ IsNone(lastRead.tags) /\ IsNone(lastRead.level)) =>
        /\ lastRead.status = 200
        /\ lastRead.data =
              SelectSeq(SnapshotOfStore, LAMBDA b : b.docType = Val(lastRead.docType))
        /\ \A k \in DOMAIN lastRead.data : lastRead.data[k].docType = Val(lastRead.docType)
        /\ lastRead.filteredTotal =
              Cardinality({i \in DOMAIN SnapshotOfStore :
                              SnapshotOfStore[i].docType = Val(lastRead.docType)})
        /\ lastRead.total = Len(store.blogs)
        /\ (store.blogs = <<B1, B2, B3, B4, B5, B6>> /\ Val(lastRead.docType) = S_official) =>
              lastRead.filteredTotal = 2 /\ lastRead.total = 6

\* GET /blogs?docType=official on the six-record snapshot
C10_Witness ==
    /\ lastRead.op = "get_blogs" /\ lastRead.status = 200
    /\ lastRead.docType = Some(S_official) /\ IsNone(lastRead.tags) /\ IsNone(lastRead.level)
    /\ Len(store.blogs) = 6
    /\ lastRead.filteredTotal = 2 /\ lastRead.total = 6

----------------------------------------------------------------------------
(* Claims about the upload path, checked under Spec *)

UploadDone == upload.pc = "done"
UploadAccepted == RequestValid(upload.filename, upload.content)

\* C1: an upload whose request is well-formed, whose markdown passes the
\* validator, whose synthesis returns and whose title and excerpt have the
\* lengths a record allows is answered 201 with the new record's
\* identity, the extracted title, a processing time and the three level
\* names, and the record of that identity has been handed to the store.
C1_UploadCompletes ==
    (UploadDone /\ UploadAccepted /\ validate(upload.content).is_valid
     /\ upload.synthesis = "returned"
     /\ Len(upload.title) \in MinTitleLen..MaxTitleLen
     /\ Len(upload.excerpt) \in MinExcerptLen..MaxExcerptLen) =>
        /\ upload.response.status = 201
        /\ upload.response.body.blog_id # ""
        /\ upload.response.body.title = upload.title
        /\ upload.response.body.processing_time_ms >= 0
        /\ upload.response.body.expertise_levels = <<S_beginner, S_intermediate, S_expert>>
        /\ persisted # <<>>
        /\ persisted[Len(persisted)].id = upload.response.body.blog_id

\* C2: an upload aborts at the first failing step. When the validator rejects
\* the text the answer is the validation error "Invalid markdown: " followed
\* by the validator's messages joined with ", ", and neither synthesis nor
\* the write to the store has run; when synthesis fails, nothing is handed
\* to the store.
C2_AbortsAtFirstFailure ==
    /\ (UploadDone /\ UploadAccepted /\ ~validate(upload.content).is_valid) =>
          /\ upload.response.status = 400
          /\ upload.response.detail =
                "Invalid markdown: " \o JoinText(validate(upload.content).errors, ", ")
          /\ "generate_expertise_versions" \notin Range(upload.trace)
          /\ "add_blog" \notin Range(upload.trace)
          /\ upload.synthesis = "none"
          /\ upload.content = T_broken =>
                upload.response.detail =
                    "Invalid markdown: Unclosed code block detected, Unclosed link bracket detected, No markdown formatting detected"
    /\ (UploadDone /\ upload.synthesis = "raised") =>
          /\ upload.response.status >= 400
          /\ "add_blog" \notin Range(upload.trace)
          /\ "Blog" \notin Range(upload.trace)
    /\ (upload.handed = 0) => persisted = <<>>

\* a text with three defects was uploaded and refused with the joined message
C2_Witness ==
    /\ UploadDone /\ UploadAccepted
    /\ upload.content = T_broken
    /\ Len(validate(upload.content).errors) = 3
    /\ upload.response.status = 400
    /\ upload.trace = <<"validate">>

\* C3: a record an upload has handed over is seen by every read that starts
\* afterwards: the total of a listing is the size of the store plus the
\* number of records handed over before the listing started, and the lookup
\* of the identity just handed over finds the record.
C3_UploadVisibleToLaterReads ==
    /\ (lastRead.op = "get_blogs" /\ lastRead.status = 200) =>
          lastRead.total = Len(store.blogs) + lastRead.handed_before
    /\ (IsLookup /\ store.file = "json"
        /\ UploadDone /\ "add_blog" \in Range(upload.trace)
        /\ lastRead.handed_before = upload.handed
        /\ lastRead.blog_id = UUID(uuid_counter)) =>
          lastRead.status = 200 /\ lastRead.found

\* C4 as stated: every record a read returns, whatever upload is in flight,
\* has every field set and its content is a single string or a mapping with
\* all of beginner, intermediate and expert.
C4_WholeRecordsThreeLevels ==
    lastRead.status = 200 =>
        \A k \in DOMAIN lastRead.data :
            /\ DOMAIN lastRead.data[k] = BlogFields
            /\ \/ ~IsDict(lastRead.data[k].content)
               \/ {S_beginner, S_intermediate, S_expert} \subseteq
                      DOMAIN lastRead.data[k].content.map

\* C4: every record a read returns, whatever upload is in flight, is a whole
\* record of the snapshot: every field set and equal to the stored one, and
\* its content either the stored mapping, entire, or the single string the
\* stored mapping holds for one level.
C4_WholeRecords ==
    lastRead.status = 200 =>
        \A k \in DOMAIN lastRead.data :
            /\ DOMAIN lastRead.data[k] = BlogFields
            /\ \E i \in DOMAIN SnapshotOfStore :
                  LET s == SnapshotOfStore[i]
                      r == lastRead.data[k]
                  IN  /\ [r EXCEPT !.content = s.content] = s
                      /\ \/ r.content = s.content
                         \/ \E L \in DOMAIN s.content.map :
                                r.content = StrContent(s.content.map[L])

\* a listing with a level returned adapted records while an upload was
\* suspended at the synthesis step
C4_Witness ==
    /\ upload.pc = "awaiting"
    /\ lastRead.op = "get_blogs" /\ lastRead.status = 200
    /\ lastRead.level = Some(S_beginner)
    /\ Len(lastRead.data) >= 2
    /\ \E k \in DOMAIN lastRead.data : ~IsDict(lastRead.data[k].content)

----------------------------------------------------------------------------
(* Claims about the filter stages and the lookup, checked under SpecRetrieval *)

\* the tags as the caller wrote them
WrittenTags ==
    IF IsNone(lastRead.tags) THEN <<>>
    ELSE IF lastRead.op = "get_blogs" THEN Split(Val(lastRead.tags), ",")
    ELSE Val(lastRead.tags)

\* one of the record's tags equals, ignoring case, one of the written tags
SharesTag(b) ==
    \E i \in DOMAIN WrittenTags, j \in DOMAIN b.tags :
        /\ Strip(WrittenTags[i]) # <<>>
        /\ Lower(Strip(WrittenTags[i])) = Lower(b.tags[j])

\* C11: with a tag list that is non-empty after trimming and lower-casing,
\* a record that passed the category stage is returned if and only if one of
\* its tags equals one of the requested tags ignoring case; the record tagged
\* ["DevOps"] is returned for the request devops,security.
C11_TagStageOrSemantics ==
    /\ (IsListing /\ lastRead.status = 200
        /\ \E i \in DOMAIN WrittenTags : Strip(WrittenTags[i]) # <<>>) =>
          \A i \in DOMAIN ListingInput :
              SurvivesCategory(ListingInput[i]) =>
                  ((\E k \in DOMAIN lastRead.data : lastRead.data[k].id = ListingInput[i].id)
                     <=> SharesTag(ListingInput[i]))
    /\ (lastRead.op = "get_blogs" /\ lastRead.status = 200
        /\ lastRead.tags = Some(S_devops \o <<",">> \o S_security)
        /\ ~CategoryAsked
        /\ \E i \in DOMAIN store.blogs : store.blogs[i].tags = <<S_DevOps>>) =>
          \E k \in DOMAIN lastRead.data : lastRead.data[k].tags = <<S_DevOps>>

\* GET /blogs?tags=devops,security kept the record tagged ["DevOps"] and
\* dropped a record that has neither tag
C11_Witness ==
    /\ lastRead.op = "get_blogs" /\ lastRead.status = 200
    /\ lastRead.tags = Some(S_devops \o <<",">> \o S_security)
    /\ \E k \in DOMAIN lastRead.data : lastRead.data[k].tags = <<S_DevOps>>
    /\ lastRead.filteredTotal < lastRead.total

\* C12: a lookup whose identity no record of the loaded snapshot has is
\* answered 404 "Blog with ID '<id>' not found", with no record, whatever
\* level is supplied, a level outside the three values included.
C12_MissingIdentityNotFound ==
    (IsLookup /\ lastRead.status # 500
     /\ \A i \in DOMAIN store.blogs : store.blogs[i].id # lastRead.blog_id) =>
        /\ lastRead.status = 404
        /\ lastRead.detail = "Blog with ID '" \o lastRead.blog_id \o "' not found"
        /\ ~lastRead.found
        /\ lastRead.data = <<>>
        /\ lastRead.blog_id = "999" => lastRead.detail = "Blog with ID '999' not found"

\* GET /blogs/999?expertiseLevel=super-expert on a loaded snapshot was answered 404
C12_Witness ==
    /\ IsLookup /\ lastRead.blog_id = "999"
    /\ lastRead.level = Some(S_super_expert)
    /\ ~IsNone(cached_blogs) /\ Len(Val(cached_blogs)) > 0
    /\ lastRead.status = 404

\* C13: for every GET /blogs that succeeds, whatever the filter parameters,
\* total is the size of the whole snapshot, filteredTotal is the number of
\* records in data, and filteredTotal <= total.
C13_TotalsOfListing ==
    (lastRead.op = "get_blogs" /\ lastRead.status = 200) =>
        /\ lastRead.total = Len(store.blogs)
        /\ lastRead.filteredTotal = Len(lastRead.data)
        /\ lastRead.filteredTotal <= lastRead.total

\* a listing with filters that match nothing on the six-record snapshot
C13_Witness ==
    /\ lastRead.op = "get_blogs" /\ lastRead.status = 200
    /\ CategoryAsked /\ ~IsNone(lastRead.tags)
    /\ lastRead.data = <<>> /\ lastRead.filteredTotal = 0
    /\ lastRead.total = 6

\* the arguments of the last listing as filter_blogs takes them
ListingTags == IF lastRead.op = "get_blogs" THEN ParseTags(lastRead.tags) ELSE lastRead.tags
CountOf(d, t, l) == Len(filter_blogs(ListingInput, d, t, l).data)

\* the category and the level of the last listing are absent or among the allowed values
ValidQuery ==
    /\ CategoryAsked => Category \in {S_official, S_community}
    /\ LevelAsked => Level \in {S_beginner, S_intermediate, S_expert}

\* C14: filter monotonicity: a listing with a valid query never returns more
\* records than the same query on the same list with its category, its tags or
\* its level left out; the level stage never changes the number of records.
C14_FilterMonotone ==
    (IsListing /\ lastRead.status = 200 /\ ValidQuery) =>
        /\ Len(lastRead.data) <= Len(ListingInput)
        /\ Len(lastRead.data) <= CountOf(None, ListingTags, lastRead.level)
        /\ Len(lastRead.data) <= CountOf(lastRead.docType, None, lastRead.level)
        /\ Len(lastRead.data) <= CountOf(lastRead.docType, ListingTags, None)
        /\ Len(lastRead.data) <= CountOf(lastRead.docType, None, None)
        /\ Len(lastRead.data) <= CountOf(None, ListingTags, None)
        /\ Len(lastRead.data) = CountOf(lastRead.docType, ListingTags, None)
        /\ Len(lastRead.data) = Len(Survivors)

\* a listing with a category, tags and a level returned some but not all of
\* the records, one of them without the requested level
C14_Witness ==
    /\ IsListing /\ lastRead.status = 200
    /\ CategoryAsked /\ RequestedTags # <<>> /\ lastRead.level = Some(S_expert)
    /\ Len(lastRead.data) > 0 /\ Len(lastRead.data) < Len(ListingInput)
    /\ \E k \in DOMAIN lastRead.data : IsDict(lastRead.data[k].content)

\* C15: the snapshot is loaded once and reused: once the service holds a
\* loaded snapshot, every later operation leaves that same collection in
\* place, answers from it, and does not open the store again; no operation
\* opens the store more than once.
C15_LoadedOnce ==
    /\ [](lastRead.store_reads <= 1)
    /\ [][~IsNone(cached_blogs) =>
            /\ cached_blogs' = cached_blogs
            /\ lastRead'.store_reads = 0
            /\ (lastRead'.op = "get_blogs" /\ lastRead'.status = 200
                /\ IsNone(lastRead'.docType) /\ IsNone(lastRead'.tags)
                /\ IsNone(lastRead'.level)) => lastRead'.data = Val(cached_blogs)
         ]_vars

\* a listing answered from the loaded snapshot without opening the store
C15_Witness ==
    /\ ~IsNone(cached_blogs) /\ Len(Val(cached_blogs)) > 0
    /\ lastRead.op = "get_blogs" /\ lastRead.status = 200
    /\ lastRead.store_reads = 0
    /\ lastRead.data = Val(cached_blogs)

----------------------------------------------------------------------------
(* Claims about synthesis and the upload pipeline, checked under Spec *)

\* needle occurs in hay as a contiguous run
Contains(hay, needle) ==
    \E i \in 0..(Len(hay) - Len(needle)) : SubSeq(hay, i + 1, i + Len(needle)) = needle

\* C16: the mapping generate_expertise_versions returns for a source text
\* and a title has exactly the keys beginner, intermediate and expert; every
\* value is a non-empty text that contains the title; the three values are
\* pairwise distinct; the intermediate and the expert value contain the
\* source text verbatim.
C16_RenderingsContract ==
    ~IsNone(upload.generated) =>
        LET g == Val(upload.generated) IN
        /\ DOMAIN g = {S_beginner, S_intermediate, S_expert}
        /\ \A k \in DOMAIN g : Len(g[k]) > 0 /\ Contains(g[k], upload.title)
        /\ g[S_beginner] # g[S_intermediate]
        /\ g[S_beginner] # g[S_expert]
        /\ g[S_intermediate] # g[S_expert]
        /\ Contains(g[S_intermediate], upload.content)
        /\ Contains(g[S_expert], upload.content)

\* the generator returned for a text with a blank line in it and for a title
\* taken from its heading
C16_Witness ==
    /\ ~IsNone(upload.generated)
    /\ upload.content = T_hello
    /\ Len(upload.title) > 0
    /\ Contains(upload.content, <<NL, NL>>)

\* C17: the synthesis step is bounded in time: an upload whose generation
\* call was still pending when its time budget ran out ends in a
\* generation-timeout failure, with no mapping returned and no record
\* built; a mapping that is returned is never partial.
C17_SynthesisTimeBounded ==
    /\ (UploadDone /\ upload.overdue) =>
          /\ upload.synthesis = "timeout"
          /\ IsNone(upload.generated)
          /\ IsNone(upload.built)
          /\ upload.response.status \notin {0, 201}
    /\ ~IsNone(upload.generated) =>
          DOMAIN Val(upload.generated) = {S_beginner, S_intermediate, S_expert}

\* C18: a failure of the synthesis step reaches the caller with an outcome
\* of its own: not one of the answers to a caller-input error (422 for a
\* malformed request, 400 for invalid markdown), and not the answer every
\* other internal failure gets (500 "Internal server error").
C18_SynthesisFailureDistinct ==
    (UploadDone /\ upload.synthesis = "raised") =>
        /\ upload.response.status \notin {0, 201, 400, 422}
        /\ ~(upload.response.status = 500 /\ upload.response.detail = "Internal server error")

\* the request check on a text of 1048577 characters under a good name
TooLongRejected == ~RequestValid(F_hello_md, TooLongText)

\* the filename is at least three characters long and ends in ".md"
NamedMd(filename) ==
    /\ Len(filename) >= 3
    /\ SubSeq(filename, Len(filename) - 2, Len(filename)) = <<".", "m", "d">>

\* C19: an upload whose content is shorter than 10 or longer than 1048576
\* characters, or whose filename does not end in ".md", is answered 422 at
\* the request boundary: the validator and every later step have not run
\* and nothing is handed to the store.
C19_MalformedRequestRejectedFirst ==
    /\ (UploadDone /\ (\/ Len(upload.content) < 10
                       \/ Len(upload.content) > 1048576
                       \/ ~NamedMd(upload.filename))) =>
          /\ upload.response.status = 422
          /\ upload.trace = <<>>
          /\ upload.synthesis = "none"
          /\ IsNone(upload.generated) /\ IsNone(upload.built)
          /\ persisted = <<>>
    /\ TooLongRejected

\* an upload of five characters of content was answered 422 with no step run
C19_Witness ==
    /\ UploadDone
    /\ upload.content = T_short /\ upload.filename = F_hello_md
    /\ upload.response.status = 422
    /\ upload.trace = <<>>

\* C20: every record process_markdown_upload creates has category
\* "community", whatever the uploaded text and filename (the source tag of the
\* request is never read by the handler); no upload produces a record of
\* category "official", neither as the object built in step 5 nor among the
\* records handed to the store.
C20_UploadsAreCommunity ==
    /\ ~IsNone(upload.built) =>
          /\ Val(upload.built).docType = S_community
          /\ Val(upload.built).docType # S_official
    /\ \A i \in DOMAIN persisted : persisted[i].docType = S_community

\* an upload whose title came from the filename has built its record
C20_Witness ==
    /\ UploadDone
    /\ ~IsNone(upload.built)
    /\ Val(upload.built).title = extract_title(upload.content, upload.filename)
    /\ Val(upload.built).docType = S_community

----------------------------------------------------------------------------
(* Claims about metadata extraction and the validator *)

S_HelloWorld == <<"H", "e", "l", "l", "o", " ", "W", "o", "r", "l", "d">>
S_ThisIsAParagraph ==
    <<"T", "h", "i", "s", " ", "i", "s", " ", "a", " ", "p", "a", "r", "a", "g", "r", "a",
      "p", "h", ".">>

\* the upload has run steps 2 and 3 (title and excerpt are extracted)
Extracted == upload.pc \in {"awaiting", "done"} /\ "_generate_excerpt" \in Range(upload.trace)

\* C21: for the text "# Hello World", blank line, "This is a paragraph." with
\* filename "hello.md", metadata extraction yields the title "Hello World",
\* the excerpt "This is a paragraph." and the read time "1 min read".
C21_ScenarioMetadata ==
    (Extracted /\ upload.content = T_hello /\ upload.filename = F_hello_md) =>
        /\ upload.title = S_HelloWorld
        /\ upload.excerpt = S_ThisIsAParagraph
        /\ calculate_read_time(upload.content) = [minutes |-> 1, suffix |-> " min read"]

\* C22: constructing a record whose docType is outside {official, community}
\* (such as "invalid_type") is rejected with a validation error: a store file
\* that holds such a record cannot be loaded, so every read of it fails as a
\* load failure and nothing is cached.
C22_InvalidDocTypeRejected ==
    (/\ lastRead.op # "none"
     /\ \E i \in DOMAIN store.blogs : store.blogs[i].docType = S_invalid_type) =>
        /\ lastRead.status = 500
        /\ IsNone(cached_blogs)

\* C23: a tag list that becomes empty after trimming and discarding blanks
\* skips only the tag stage: filter_blogs called with such a list answers as
\* the same call with no tag list does (same status, same error detail, same
\* records), so the level is still validated and the survivors are adapted.
C23_BlankTagsSkipOnlyTagStage ==
    (/\ lastRead.op = "filter_blogs"
     /\ ~IsNone(lastRead.tags)
     /\ CleanTags(Val(lastRead.tags)) = <<>>) =>
        LET without == filter_blogs(ListingInput, lastRead.docType, None, lastRead.level)
        IN  /\ lastRead.status = without.status
            /\ lastRead.detail = without.detail
            /\ lastRead.data = without.data

\* C24: single-record retrieval applies the audience-level stage of the
\* listing: for a record that exists, a level value makes get_blog_by_id fail
\* with the 400 invalid-level error exactly when it makes filter_blogs fail on
\* that record, and otherwise both give the same record.
C24_LookupLevelStageAsListing ==
    (/\ IsLookup
     /\ lastRead.status # 500
     /\ HasId(lastRead.blog_id)) =>
        LET listed == filter_blogs(<<Found(lastRead.blog_id)>>, None, None, lastRead.level)
        IN  /\ lastRead.status = listed.status
            /\ lastRead.detail = listed.detail
            /\ lastRead.data = listed.data

\* the text is empty or whitespace alone
Blank(s) == \A i \in DOMAIN s : s[i] \in Whitespace

\* the backquotes that stand immediately before position i
BackticksBefore(s, i) ==
    Cardinality({j \in 1..(i - 1) : \A k \in j..(i - 1) : s[k] = Backtick})

\* the triple-backquote markers of a text, counted from the left without overlap
FenceMarkers(s) ==
    Cardinality({i \in DOMAIN s :
                    /\ i + 2 <= Len(s)
                    /\ s[i] = Backtick /\ s[i + 1] = Backtick /\ s[i + 2] = Backtick
                    /\ BackticksBefore(s, i) % 3 = 0})

Occurrences(s, c) == Len(SelectSeq(s, LAMBDA x : x = c))

\* the defects of a text that is not blank, in the order they are reported
DefectOrder ==
    <<"Unclosed code block detected", "Unclosed link bracket detected",
      "No markdown formatting detected">>

IsValidation == call.fn = "validate"
Reported(d) == d \in Range(call.result.errors)

\* C25: the verdict of the validator is determined by its rules: for blank
\* text the defect list is exactly the empty-content defect; for text that is
\* not blank the list holds exactly the defects whose rule fires (odd number of
\* triple-backquote markers; count of "[" differing from count of "]"; no
\* markdown formatting), each once, in that order, no rule suppressing
\* another; the verdict is valid exactly when the list is empty.
C25_VerdictDeterminedByRules ==
    IsValidation =>
        /\ call.result.is_valid <=> (call.result.errors = <<>>)
        /\ Blank(call.content) => call.result.errors = <<"Content is empty">>
        /\ ~Blank(call.content) =>
              /\ ~Reported("Content is empty")
              /\ Reported(DefectOrder[1]) <=> (FenceMarkers(call.content) % 2 = 1)
              /\ Reported(DefectOrder[2]) <=>
                    (Occurrences(call.content, "[") # Occurrences(call.content, "]"))
              /\ Reported(DefectOrder[3]) <=>
                    ~(\/ HasHeader(call.content) \/ HasBold(call.content)
                      \/ HasItalic(call.content) \/ HasList(call.content))
              /\ call.result.errors = SelectSeq(DefectOrder, Reported)

\* a text with all three defects was validated
C25_Witness ==
    /\ IsValidation
    /\ ~Blank(call.content)
    /\ call.result.errors = DefectOrder
    /\ ~call.result.is_valid

\* character c occurs in the text; c is followed by d somewhere in the text
Has(s, c) == \E i \in DOMAIN s : s[i] = c
HasPair(s, c, ds) == \E i \in DOMAIN s : i + 1 <= Len(s) /\ s[i] = c /\ s[i + 1] \in ds

IsTitleCall == call.fn = "_extract_title"

\* after the hash at position j come whitespace and then text: p is where
\* the text starts
TextStarts(s, j) ==
    {p \in (j + 2)..Len(s) : s[p] # NL /\ \A k \in (j + 1)..(p - 1) : s[k] \in Whitespace}

\* that text, to the end of its line, trimmed; the whitespace before it is
\* as long as it can be
TextAfter(s, j) ==
    LET p == CHOOSE x \in TextStarts(s, j) : \A y \in TextStarts(s, j) : y <= x
        rest == SubSeq(s, p, Len(s))
        line == IF Has(rest, NL) THEN Split(rest, NL)[1] ELSE rest
    IN  Strip(line)

\* the last hash of the run of hashes that starts at i
LastHash(s, i) == CHOOSE j \in i..Len(s) :
    /\ \A k \in i..j : s[k] = "#"
    /\ (j = Len(s) \/ s[j + 1] # "#")

\* a heading of depth one, and of any depth, starts at position i
TopHeadingAt(s, i) == AtLineStart(s, i) /\ s[i] = "#" /\ TextStarts(s, i) # {}
HeadingAt(s, i) == AtLineStart(s, i) /\ s[i] = "#" /\ TextStarts(s, LastHash(s, i)) # {}

FirstWhere(s, P(_, _)) == CHOOSE i \in DOMAIN s : P(s, i) /\ \A j \in 1..(i - 1) : ~P(s, j)

\* the titles the filenames of the model give
FilenameTitle(f) ==
    CASE f = F_hello_md -> <<"H", "e", "l", "l", "o">>
      [] f = F_my_Blog_post_md -> <<"M", "y", " ", "B", "l", "o", "g", " ", "P", "o", "s", "t">>
      [] f = F_a_md_md -> <<"A">>

----------------------------------------------------------------------------
(* Claims about the failures of an upload and of a load *)

\* the upload ended in a failure of the service (the request itself was
\* well-formed)
UploadFailed == UploadDone /\ upload.response.status \notin {201, 422}
FailedAtValidation == upload.trace = <<"validate">>

\* C28: on the upload endpoint only a failure of the validator (step 1) is
\* answered as a caller error, 400 with the defect message; a failure at any
\* later step (metadata extraction, synthesis, record construction, hand-off
\* to the store) is answered 500 with the detail "Internal server error".
C28_OnlyValidationIsCallerError ==
    UploadFailed =>
        IF FailedAtValidation
        THEN /\ upload.response.status = 400
             /\ upload.response.detail = InvalidMarkdown(validate(upload.content).errors)
        ELSE /\ upload.response.status = 500
             /\ upload.response.detail = "Internal server error"

\* C29: every upload that satisfies the request constraints and passes the
\* validator yields metadata that satisfies the constraints of the record
\* (title of 1 to 200 characters, excerpt of 10 to 500 characters, a read-time
\* label "<N> min read"), so that record construction never fails for
\* structurally valid input: once the generator has returned, the record is
\* built.
C29_ValidUploadYieldsValidMetadata ==
    /\ Extracted =>
          /\ Len(upload.title) >= MinTitleLen /\ Len(upload.title) <= MaxTitleLen
          /\ Len(upload.excerpt) >= MinExcerptLen /\ Len(upload.excerpt) <= MaxExcerptLen
          /\ calculate_read_time(upload.content).suffix = " min read"
          /\ calculate_read_time(upload.content).minutes >= 1
    /\ (UploadDone /\ upload.synthesis = "returned") => ~IsNone(upload.built)

\* the store file is missing, is not JSON, or holds a record the Blog model
\* rejects
StoreUnloadable ==
    \/ store.file # "json"
    \/ \E i \in DOMAIN store.blogs :
          \/ Len(store.blogs[i].excerpt) < MinExcerptLen
          \/ Len(store.blogs[i].title) < MinTitleLen

LoadFailureDetails == {"Blog data unavailable", "Blog data corrupted", "Internal server error"}

\* C30: a snapshot load that fails (file missing, contents unparseable, or a
\* record failing validation) leaves the cache unpopulated: nothing, not even
\* the records that were valid, is cached or served; the failure is answered
\* 500; and every later access opens the store file again. Reads answer 500
\* for no other reason.
C30_FailedLoadCachesNothing ==
    /\ StoreUnloadable =>
          /\ IsNone(cached_blogs)
          /\ lastRead.op # "none" =>
                /\ lastRead.status = 500
                /\ lastRead.detail \in LoadFailureDetails
                /\ lastRead.data = <<>> /\ ~lastRead.found
                /\ lastRead.store_reads = 1
    /\ lastRead.status = 500 => StoreUnloadable

\* a read of the store whose second record is rejected has failed
C30_Witness ==
    /\ store = JsonFile(<<B1, BadBlog>>)
    /\ lastRead.op = "get_blogs"
    /\ lastRead.status = 500
    /\ lastRead.store_reads = 1
    /\ IsNone(cached_blogs)

====
